---------------------------- MODULE Spec2Model ----------------------------
(***************************************************************************)
(* Model of the WDFW deer-harvest scrapers:                                *)
(*   src/scrape_deer_harvest_all_years.py  (method-level, all years)       *)
(*   src/scrape_deer_harvest.py            (per-GMU summary, one year)     *)
(*                                                                         *)
(* Text is a sequence of characters; a character is a one-character string *)
(* (the en dash U+2013, which a TLA+ string cannot hold, is the atom       *)
(* EnDash).  Python's None is the value None (NoneDict where the other     *)
(* values are dicts).                                                      *)
(***************************************************************************)
EXTENDS Integers, Sequences, FiniteSets, TLC

(***************************************************************************)
(* Characters and str methods                                              *)
(***************************************************************************)
None == <<"None">>

\* None where the other values are dicts
NoneDict == [none |-> TRUE]

\* no file of the output name exists
NoFile == [exists |-> FALSE]

\* write_csv(data, output_path): the file holds a header line and the rows
write_csv(rows) == [exists |-> TRUE, rows |-> rows]

EnDash == "u2013"

Whitespace == {" ", "\t", "\n"}

Digits == <<"0", "1", "2", "3", "4", "5", "6", "7", "8", "9">>

UpperAlpha ==
  <<"A", "B", "C", "D", "E", "F", "G", "H", "I", "J", "K", "L", "M",
    "N", "O", "P", "Q", "R", "S", "T", "U", "V", "W", "X", "Y", "Z">>

LowerAlpha ==
  <<"a", "b", "c", "d", "e", "f", "g", "h", "i", "j", "k", "l", "m",
    "n", "o", "p", "q", "r", "s", "t", "u", "v", "w", "x", "y", "z">>

IsDigit(c) == \E d \in 1..10 : Digits[d] = c

DigitValue(c) == (CHOOSE d \in 1..10 : Digits[d] = c) - 1

\* str.lower() on one character
LowerChar(c) ==
  IF \E k \in 1..26 : UpperAlpha[k] = c
    THEN LowerAlpha[CHOOSE k \in 1..26 : UpperAlpha[k] = c]
    ELSE c

\* str.lower()
Lower(s) == [k \in 1..Len(s) |-> LowerChar(s[k])]

\* str.strip(): drop leading and trailing whitespace
Strip(s) ==
  LET keep == {k \in 1..Len(s) : s[k] \notin Whitespace}
  IN  IF keep = {} THEN <<>>
      ELSE LET first == CHOOSE k \in keep : \A m \in keep : k <= m
               last  == CHOOSE k \in keep : \A m \in keep : m <= k
           IN  SubSeq(s, first, last)

\* str.replace(',', ''): drop every comma
RECURSIVE RemoveCommas(_)
RemoveCommas(s) ==
  IF s = <<>> THEN <<>>
  ELSE IF Head(s) = "," THEN RemoveCommas(Tail(s))
  ELSE <<Head(s)>> \o RemoveCommas(Tail(s))

\* the `needle in s` test on str
Contains(s, needle) ==
  \E k \in 1..(Len(s) - Len(needle) + 1) :
    SubSeq(s, k, k + Len(needle) - 1) = needle

\* element.get_text(strip=True) of a node holding one text
get_text(raw) == Strip(raw)

\* the first position >= k of s that holds no whitespace (Len(s)+1 if none): \s*
SkipSpace(s, k) ==
  LET stop == {m \in k..Len(s) : s[m] \notin Whitespace}
  IN  IF stop = {} THEN Len(s) + 1
      ELSE CHOOSE m \in stop : \A n \in stop : m <= n

(***************************************************************************)
(* The literals of the source                                              *)
(***************************************************************************)
LitMethod == <<"m", "e", "t", "h", "o", "d">>

LitTotals == <<"t", "o", "t", "a", "l", "s">>

LitTotal == <<"t", "o", "t", "a", "l">>

LitArchery == <<"a", "r", "c", "h", "e", "r", "y">>

LitNA == <<"n", "/", "a">>

LitDistrict == <<"d", "i", "s", "t", "r", "i", "c", "t">>

LitModernFirearmsLower ==
  <<"m", "o", "d", "e", "r", "n", " ", "f", "i", "r", "e", "a", "r", "m", "s">>

LitModernFirearm ==
  <<"M", "o", "d", "e", "r", "n", " ", "F", "i", "r", "e", "a", "r", "m">>

(***************************************************************************)
(* The two regular expressions                                             *)
(***************************************************************************)
\* re.search(r'District\s*(\d+)', text, re.IGNORECASE): the start positions at
\* which the pattern matches
DistrictStarts(text) ==
  {k \in 1..Len(text) :
     /\ k + 7 <= Len(text)
     /\ Lower(SubSeq(text, k, k + 7)) = LitDistrict
     /\ LET d == SkipSpace(text, k + 8)
        IN  d <= Len(text) /\ IsDigit(text[d])}

\* the match object is truthy
DistrictMatches(text) == DistrictStarts(text) # {}

\* district_match.group(1): the digits (greedy) of the leftmost match
DistrictGroup1(text) ==
  LET S == DistrictStarts(text)
      k == CHOOSE m \in S : \A n \in S : m <= n
      d == SkipSpace(text, k + 8)
      stop == {m \in d..Len(text) : ~IsDigit(text[m])}
      e == IF stop = {} THEN Len(text)
           ELSE (CHOOSE m \in stop : \A n \in stop : m <= n) - 1
  IN  SubSeq(text, d, e)

\* re.match(r'(\d{3})\s*[-–]\s*(.+)', text): the position of the dash, or 0
\* when the prefix (\d{3})\s*[-–] does not match at the start of the text
GmuDash(text) ==
  IF Len(text) >= 3 /\ IsDigit(text[1]) /\ IsDigit(text[2]) /\ IsDigit(text[3])
    THEN LET q == SkipSpace(text, 4)
         IN  IF q <= Len(text) /\ text[q] \in {"-", EnDash} THEN q ELSE 0
    ELSE 0

\* where group 2, (.+), starts, or 0 when it cannot match: after the greedy
\* \s*, or, when only whitespace is left, at the last character that is not a
\* newline (\s* gives characters back until '.' can match one)
GmuGroup2Start(text) ==
  LET q == GmuDash(text)
      r == SkipSpace(text, q + 1)
      back == {m \in (q + 1)..Len(text) : text[m] # "\n"}
  IN  IF q = 0 THEN 0
      ELSE IF r <= Len(text) THEN r
      ELSE IF back = {} THEN 0
      ELSE CHOOSE m \in back : \A n \in back : n <= m

\* the match object is truthy
GmuMatches(text) == GmuGroup2Start(text) # 0

\* gmu_match.group(1)
GmuGroup1(text) == SubSeq(text, 1, 3)

\* gmu_match.group(2): '.' matches up to the next newline
GmuGroup2(text) ==
  LET r == GmuGroup2Start(text)
      nl == {m \in r..Len(text) : text[m] = "\n"}
      e == IF nl = {} THEN Len(text)
           ELSE (CHOOSE m \in nl : \A n \in nl : m <= n) - 1
  IN  SubSeq(text, r, e)

(***************************************************************************)
(* Cell cleaning and integer parsing                                       *)
(***************************************************************************)
\* clean_value(val)
clean_value(val) ==
  LET v == Strip(val)
  IN  IF Lower(v) = LitNA THEN <<>> ELSE v

\* int(s) does not raise ValueError: after stripping whitespace, an optional
\* sign, then digits, with single underscores allowed between digits
IntParses(s) ==
  LET v == Strip(s)
      body == IF v # <<>> /\ v[1] \in {"+", "-"} THEN Tail(v) ELSE v
  IN  /\ body # <<>>
      /\ \A k \in 1..Len(body) : IsDigit(body[k]) \/ body[k] = "_"
      /\ IsDigit(body[1]) /\ IsDigit(body[Len(body)])
      /\ \A k \in 1..(Len(body) - 1) : ~(body[k] = "_" /\ body[k + 1] = "_")

\* the value of a run of digits and underscores
RECURSIVE DigitsValue(_)
DigitsValue(body) ==
  IF body = <<>> THEN 0
  ELSE LET init == SubSeq(body, 1, Len(body) - 1)
           c == body[Len(body)]
       IN  IF c = "_" THEN DigitsValue(init)
           ELSE 10 * DigitsValue(init) + DigitValue(c)

\* int(s), where IntParses(s)
IntValue(s) ==
  LET v == Strip(s)
  IN  IF v[1] = "-" THEN 0 - DigitsValue(Tail(v))
      ELSE IF v[1] = "+" THEN DigitsValue(Tail(v))
      ELSE DigitsValue(v)

\* parse_int(val)
parse_int(val) ==
  LET v == RemoveCommas(Strip(val))
  IN  IF Lower(v) = LitNA \/ v = <<>> THEN 0
      ELSE IF IntParses(v) THEN IntValue(v)
      ELSE 0

\* normalize_method(method) as the exact-case comparison would have it
normalize_method_exact_case(method) ==
  IF method = LitModernFirearm \o <<"s">> THEN LitModernFirearm ELSE method

\* normalize_method(method)
normalize_method(method) ==
  IF Lower(method) = LitModernFirearmsLower THEN LitModernFirearm ELSE method

(***************************************************************************)
(* Number formatting                                                       *)
(***************************************************************************)
\* str(n) for n >= 0
RECURSIVE NatToStr(_)
NatToStr(n) ==
  IF n < 10 THEN <<Digits[n + 1]>>
  ELSE NatToStr(n \div 10) \o <<Digits[(n % 10) + 1]>>

\* str(n)
IntToStr(n) == IF n < 0 THEN <<"-">> \o NatToStr(0 - n) ELSE NatToStr(n)

\* a / b (a >= 0, b > 0) rounded to the nearest integer, a tie to the even one
RoundHalfEven(a, b) ==
  LET k == a \div b
      rem == a % b
  IN  IF 2 * rem < b THEN k
      ELSE IF 2 * rem > b THEN k + 1
      ELSE IF k % 2 = 0 THEN k ELSE k + 1

\* the largest lg with 2^lg * b <= a (a, b > 0): the binary exponent of a / b
RECURSIVE FloorLog2(_, _)
FloorLog2(a, b) ==
  IF a >= b
    THEN IF 2 * b <= a THEN 1 + FloorLog2(a, 2 * b) ELSE 0
    ELSE FloorLog2(2 * a, b) - 1

\* (x * 2^e) % n
RECURSIVE ShiftMod(_, _, _)
ShiftMod(x, e, n) ==
  IF e = 0 THEN x % n ELSE ShiftMod((2 * x) % n, e - 1, n)

\* 2^e, e >= 0
RECURSIVE Pow2(_)
Pow2(e) == IF e = 0 THEN 1 ELSE 2 * Pow2(e - 1)

\* The value printed by f"{(h / n * 100):.0f}" for ints h, n > 0.  The quotient
\* h / n is an IEEE-754 double (53-bit significand, round to nearest even) and
\* so is its product with 100; '.0f' then rounds the double half-to-even.  Off a
\* tie the two roundings cannot move the result across k + 1/2.  On a tie of
\* 100*h/n the significand of h / n is m = round(h * 2^e / n), e = 52 - lg, its
\* error is err / n (in units of the last place), and the product lands
\* 100 * err / (n * 2^sh) units of its own last place from the tie.
RateRounded(h, n) ==
  LET k == (100 * h) \div n
      rem == (100 * h) % n
      lg == FloorLog2(h, n)
      r == ShiftMod(h, 52 - lg, n)
      err == IF 2 * r > n THEN n - r ELSE 0 - r
      sh == FloorLog2(2 * k + 1, 2) - lg
      num == IF k = 0 /\ err < 0 THEN 200 * err ELSE 100 * err
      den == n * Pow2(sh)
  IN  IF 2 * rem < n THEN k
      ELSE IF 2 * rem > n THEN k + 1
      ELSE IF 2 * num > den THEN k + 1
      ELSE IF 2 * (0 - num) > den THEN k
      ELSE IF k % 2 = 0 THEN k ELSE k + 1

\* f"{(total_harvest / total_hunters * 100):.0f}%"
FormatSuccessRate(total_harvest, total_hunters) ==
  NatToStr(RateRounded(total_harvest, total_hunters)) \o <<"%">>

\* f"{(total_hunter_days / total_harvest):.0f}": one correctly rounded division,
\* a tie is exact in a double; a negative quotient keeps its sign ("-0")
FormatDaysPerKill(total_hunter_days, total_harvest) ==
  IF total_hunter_days < 0
    THEN <<"-">> \o NatToStr(RoundHalfEven(0 - total_hunter_days, total_harvest))
    ELSE NatToStr(RoundHalfEven(total_hunter_days, total_harvest))

(***************************************************************************)
(* Method-level variant: parse_gmu_table (scrape_deer_harvest_all_years.py)*)
(*                                                                         *)
(* A row is the sequence of the raw texts of its td/th cells.              *)
(***************************************************************************)
\* the least number of cells of a data row: `if len(cells) < 13: continue`
MinCells == 13

\* cell_texts = [c.get_text(strip=True) for c in cells]
CellTexts(row) == [k \in 1..Len(row) |-> get_text(row[k])]

\* `len(cells) < 13`
RowTooShort(row) == Len(row) < MinCells

\* `method.lower() == 'method'`: the header test of the method-level variant
IsHeaderMethod(method) == Lower(method) = LitMethod

\* the totals test with the skip left out
IsTotalsMethod_never(method) == FALSE

\* `method.lower() == 'totals'`: the totals test of the method-level variant
IsTotalsMethod(method) == Lower(method) = LitTotals

\* the dict appended to results for one row
HarvestRecord(cell_texts, year, district, gmu_number, gmu_name) ==
  [year |-> year,
   district |-> IF district = None \/ district = <<>> THEN <<>> ELSE district,
   gmu_number |-> gmu_number,
   gmu_name |-> gmu_name,
   method |-> normalize_method(cell_texts[1]),
   antlerless_harvest |-> clean_value(cell_texts[2]),
   antlered_harvest |-> clean_value(cell_texts[3]),
   total_harvest |-> clean_value(cell_texts[4]),
   points_1 |-> clean_value(cell_texts[5]),
   points_2 |-> clean_value(cell_texts[6]),
   points_3 |-> clean_value(cell_texts[7]),
   points_4 |-> clean_value(cell_texts[8]),
   points_5_plus |-> clean_value(cell_texts[9]),
   num_hunters |-> clean_value(cell_texts[10]),
   hunter_success_rate |-> clean_value(cell_texts[11]),
   hunter_days |-> clean_value(cell_texts[12]),
   days_per_kill |-> clean_value(cell_texts[13])]

\* one iteration of `for row in rows` on the list results
parse_row(results, row, year, district, gmu_number, gmu_name) ==
  IF RowTooShort(row) THEN results
  ELSE LET cell_texts == CellTexts(row)
           method == cell_texts[1]
       IN  IF IsHeaderMethod(method) THEN results
           ELSE IF IsTotalsMethod(method) THEN results
           ELSE Append(results,
                  HarvestRecord(cell_texts, year, district, gmu_number, gmu_name))

\* the loop of parse_gmu_table from row k on
RECURSIVE parse_rows_from(_, _, _, _, _, _, _)
parse_rows_from(results, rows, k, year, district, gmu_number, gmu_name) ==
  IF k > Len(rows) THEN results
  ELSE parse_rows_from(
         parse_row(results, rows[k], year, district, gmu_number, gmu_name),
         rows, k + 1, year, district, gmu_number, gmu_name)

\* parse_gmu_table(table, year, district, gmu_number, gmu_name)
parse_gmu_table(table, year, district, gmu_number, gmu_name) ==
  parse_rows_from(<<>>, table.rows, 1, year, district, gmu_number, gmu_name)

(***************************************************************************)
(* Method-level variant: scrape_year                                       *)
(*                                                                         *)
(* A document is the sequence of its nodes in document order; a node is    *)
(* [tag, text, caption, rows], caption = None for a table without one.     *)
(* id(element) is the element's position in the find_all result.           *)
(***************************************************************************)
\* soup.find_all(['h2', 'h3', 'h4', 'table'])
find_all_headings_tables(doc) ==
  SelectSeq(doc, LAMBDA n : n.tag \in {"h2", "h3", "h4", "table"})

\* the walk's state before the first element
WalkInit ==
  [current_district |-> None, current_gmu |-> None, current_gmu_name |-> None,
   district_map |-> <<>>, gmu_map |-> <<>>]

\* the h2 branch without the reset of the GMU
walk_h2_no_reset(ctx, element) ==
  LET text == get_text(element.text)
  IN  IF DistrictMatches(text)
        THEN [ctx EXCEPT !.current_district = DistrictGroup1(text)]
        ELSE ctx

\* `if element.name == 'h2'`
walk_h2(ctx, element) ==
  LET text == get_text(element.text)
  IN  IF DistrictMatches(text)
        THEN [ctx EXCEPT !.current_district = DistrictGroup1(text),
                         !.current_gmu = None,
                         !.current_gmu_name = None]
        ELSE ctx

\* `elif element.name in ('h3', 'h4')`
walk_sub_heading(ctx, element) ==
  LET text == get_text(element.text)
  IN  IF GmuMatches(text)
        THEN [ctx EXCEPT !.current_gmu = GmuGroup1(text),
                         !.current_gmu_name = Strip(GmuGroup2(text))]
        ELSE ctx

\* m with m[key] = value
MapPut(m, key, value) ==
  [k \in (DOMAIN m) \cup {key} |-> IF k = key THEN value ELSE m[k]]

\* the table branch with the heading tried first and the caption second
walk_table_heading_first(ctx, key, element) ==
  LET withDistrict == [ctx EXCEPT !.district_map =
                         MapPut(ctx.district_map, key, ctx.current_district)]
  IN  IF ctx.current_gmu # None /\ ctx.current_gmu # <<>>
        THEN [withDistrict EXCEPT !.gmu_map =
                MapPut(ctx.gmu_map, key,
                       <<ctx.current_gmu,
                         IF ctx.current_gmu_name = None THEN <<>>
                         ELSE ctx.current_gmu_name>>)]
      ELSE IF element.caption # None /\ GmuMatches(get_text(element.caption))
        THEN [withDistrict EXCEPT !.gmu_map =
                MapPut(ctx.gmu_map, key,
                       <<GmuGroup1(get_text(element.caption)),
                         Strip(GmuGroup2(get_text(element.caption)))>>)]
      ELSE withDistrict

\* `elif element.name == 'table'`; a bs4 Tag is always truthy, so `if caption`
\* is `caption is not None`
walk_table(ctx, key, element) ==
  LET withDistrict == [ctx EXCEPT !.district_map =
                         MapPut(ctx.district_map, key, ctx.current_district)]
  IN  IF element.caption # None
        THEN LET caption_text == get_text(element.caption)
             IN  IF GmuMatches(caption_text)
                   THEN [withDistrict EXCEPT !.gmu_map =
                           MapPut(ctx.gmu_map, key,
                                  <<GmuGroup1(caption_text),
                                    Strip(GmuGroup2(caption_text))>>)]
                   ELSE withDistrict
      ELSE IF ctx.current_gmu # None /\ ctx.current_gmu # <<>>
        THEN [withDistrict EXCEPT !.gmu_map =
                MapPut(ctx.gmu_map, key,
                       <<ctx.current_gmu,
                         IF ctx.current_gmu_name = None \/ ctx.current_gmu_name = <<>>
                           THEN <<>> ELSE ctx.current_gmu_name>>)]
      ELSE withDistrict

\* one iteration of the first loop of scrape_year
walk_element(ctx, key, element) ==
  IF element.tag = "h2" THEN walk_h2(ctx, element)
  ELSE IF element.tag \in {"h3", "h4"} THEN walk_sub_heading(ctx, element)
  ELSE walk_table(ctx, key, element)

\* the first loop of scrape_year from element k on
RECURSIVE walk_from(_, _, _)
walk_from(ctx, elements, k) ==
  IF k > Len(elements) THEN ctx
  ELSE walk_from(walk_element(ctx, k, elements[k]), elements, k + 1)

\* one iteration of `for table in tables`: the rows a table adds to results
table_rows(ctx, key, element, year) ==
  IF key \notin DOMAIN ctx.gmu_map THEN <<>>
  ELSE parse_gmu_table(element, year,
         IF key \in DOMAIN ctx.district_map THEN ctx.district_map[key] ELSE <<>>,
         ctx.gmu_map[key][1], ctx.gmu_map[key][2])

\* the second loop of scrape_year from element k on (soup.find_all('table')
\* yields the table elements in the same order)
RECURSIVE tables_from(_, _, _, _, _)
tables_from(results, ctx, elements, k, year) ==
  IF k > Len(elements) THEN results
  ELSE tables_from(
         IF elements[k].tag = "table"
           THEN results \o table_rows(ctx, k, elements[k], year)
           ELSE results,
         ctx, elements, k + 1, year)

\* scrape_year(year) on the document the fetch returned
scrape_year(year, doc) ==
  LET elements == find_all_headings_tables(doc)
  IN  tables_from(<<>>, walk_from(WalkInit, elements, 1), elements, 1, year)

(***************************************************************************)
(* Summary variant: parse_gmu_table (scrape_deer_harvest.py)               *)
(***************************************************************************)
\* `'method' in method`: the header test of the summary variant
IsHeaderSummary(method) == Contains(method, LitMethod)

\* `'archery' in method`
IsArcherySummary(method) == Contains(method, LitArchery)

\* `'total' in method` as an equality test with 'totals' would have it
IsTotalSummary_equals(method) == method = LitTotals

\* `'total' in method`: the totals test of the summary variant
IsTotalSummary(method) == Contains(method, LitTotal)

\* the locals of parse_gmu_table before the first row
ScanInit ==
  [archery_data |-> NoneDict, total_harvest |-> 0, total_hunters |-> 0,
   total_hunter_days |-> 0]

\* one iteration of `for row in rows` on the locals
scan_row(acc, row) ==
  IF RowTooShort(row) THEN acc
  ELSE LET cell_texts == CellTexts(row)
           method == Lower(cell_texts[1])
           archery == IF IsArcherySummary(method)
                        THEN [harvest |-> clean_value(cell_texts[4]),
                              hunters |-> clean_value(cell_texts[10]),
                              success_rate |-> clean_value(cell_texts[11]),
                              days_per_kill |-> clean_value(cell_texts[13])]
                        ELSE acc.archery_data
       IN  IF IsHeaderSummary(method) THEN acc
           ELSE IF IsTotalSummary(method)
             THEN [acc EXCEPT !.archery_data = archery,
                              !.total_harvest = parse_int(cell_texts[4])]
           ELSE [acc EXCEPT !.archery_data = archery,
                            !.total_hunters = @ + parse_int(cell_texts[10]),
                            !.total_hunter_days = @ + parse_int(cell_texts[12])]

\* the loop of parse_gmu_table from row k on
RECURSIVE scan_rows_from(_, _, _)
scan_rows_from(acc, rows, k) ==
  IF k > Len(rows) THEN acc
  ELSE scan_rows_from(scan_row(acc, rows[k]), rows, k + 1)

\* the guard of the derived statistics with `or` for `and`
stats_guard_or(total_harvest, total_hunters) ==
  total_harvest > 0 \/ total_hunters > 0

\* `if total_harvest > 0 and total_hunters > 0`
stats_guard(total_harvest, total_hunters) ==
  total_harvest > 0 /\ total_hunters > 0

\* "Calculate overall stats": `/` raises ZeroDivisionError on a zero divisor
overall_stats(total_harvest, total_hunters, total_hunter_days) ==
  IF stats_guard(total_harvest, total_hunters)
    THEN IF total_hunters = 0 \/ total_harvest = 0
           THEN [raised |-> TRUE, overall_success_rate |-> <<>>,
                 overall_days_per_kill |-> <<>>]
           ELSE [raised |-> FALSE,
                 overall_success_rate |->
                   FormatSuccessRate(total_harvest, total_hunters),
                 overall_days_per_kill |->
                   FormatDaysPerKill(total_hunter_days, total_harvest)]
    ELSE [raised |-> FALSE, overall_success_rate |-> <<>>,
          overall_days_per_kill |-> <<>>]

\* the dict parse_gmu_table returns
SummaryRecord(acc, district, gmu_number, gmu_name) ==
  LET stats == overall_stats(acc.total_harvest, acc.total_hunters,
                             acc.total_hunter_days)
      archery(field) == IF acc.archery_data = NoneDict THEN <<>>
                        ELSE acc.archery_data[field]
  IN  [district |-> IF district = None \/ district = <<>> THEN <<>> ELSE district,
       gmu_number |-> gmu_number,
       gmu_name |-> gmu_name,
       archery_hunters |-> archery("hunters"),
       archery_harvest |-> archery("harvest"),
       archery_success_rate |-> archery("success_rate"),
       archery_hunter_days_per_kill |-> archery("days_per_kill"),
       total_hunters |-> IF acc.total_hunters > 0
                           THEN IntToStr(acc.total_hunters) ELSE <<>>,
       total_harvest |-> IF acc.total_harvest > 0
                           THEN IntToStr(acc.total_harvest) ELSE <<>>,
       overall_success_rate |-> stats.overall_success_rate,
       overall_hunter_days_per_kill |-> stats.overall_days_per_kill]

\* parse_gmu_table(table, district, gmu_number, gmu_name) of the summary variant
summary_parse_gmu_table(table, district, gmu_number, gmu_name) ==
  SummaryRecord(scan_rows_from(ScanInit, table.rows, 1),
                district, gmu_number, gmu_name)

(***************************************************************************)
(* Summary variant: scrape_deer_harvest                                    *)
(***************************************************************************)
\* soup.find_all(['h2', 'table'])
find_all_h2_tables(doc) == SelectSeq(doc, LAMBDA n : n.tag \in {"h2", "table"})

\* the first loop of scrape_deer_harvest from element k on: district_map
RECURSIVE district_walk_from(_, _, _, _)
district_walk_from(current, map, elems, k) ==
  IF k > Len(elems) THEN map
  ELSE IF elems[k].tag = "h2"
    THEN LET text == get_text(elems[k].text)
         IN  district_walk_from(
               IF DistrictMatches(text) THEN DistrictGroup1(text) ELSE current,
               map, elems, k + 1)
  ELSE district_walk_from(current, MapPut(map, k, current), elems, k + 1)

\* `if not caption: continue` and `if not gmu_match: continue` both passed
caption_resolves(element) ==
  element.caption # None /\ GmuMatches(get_text(element.caption))

\* the second loop of scrape_deer_harvest from element k on; the dict
\* parse_gmu_table returns is never empty, so `if gmu_data` always holds
RECURSIVE summary_tables_from(_, _, _, _)
summary_tables_from(results, map, elems, k) ==
  IF k > Len(elems) THEN results
  ELSE IF elems[k].tag = "table" /\ caption_resolves(elems[k])
    THEN LET caption_text == get_text(elems[k].caption)
         IN  summary_tables_from(
               Append(results,
                 summary_parse_gmu_table(elems[k],
                   IF k \in DOMAIN map THEN map[k] ELSE <<>>,
                   GmuGroup1(caption_text), Strip(GmuGroup2(caption_text)))),
               map, elems, k + 1)
  ELSE summary_tables_from(results, map, elems, k + 1)

\* scrape_deer_harvest(url) on the document the fetch returned
scrape_deer_harvest(doc) ==
  LET elems == find_all_h2_tables(doc)
  IN  summary_tables_from(<<>>, district_walk_from(None, <<>>, elems, 1), elems, 1)

(***************************************************************************)
(* The two main functions                                                  *)
(*                                                                         *)
(* What the fetch of a year's page gives is an outcome: a document, or one *)
(* of the exceptions requests raises.                                      *)
(***************************************************************************)
\* raise_for_status() raises requests.exceptions.HTTPError; requests.get raises
\* another exception (a ConnectionError) when the server cannot be reached
FetchFailures == {"HTTPError", "ConnectionError"}

\* the outcome of the fetch of a page: the exception raised, or "" and the
\* document
Fetched(doc) == [error |-> "", doc |-> doc]

FetchFailed(error) == [error |-> error, doc |-> <<>>]

\* a line of standard output
Line(msg, year, n) == [msg |-> msg, year |-> year, n |-> n]

\* the body of `for year in range(...)` with no try around it: the exception
\* leaves main
main_year_no_except(all_data, year, outcome) ==
  IF outcome.error \in FetchFailures
    THEN [all_data |-> all_data, line |-> Line("Traceback", year, 0),
          pc |-> "crashed"]
    ELSE LET year_data == scrape_year(year, outcome.doc)
         IN  [all_data |-> all_data \o year_data,
              line |-> Line("records", year, Len(year_data)),
              pc |-> "loop"]

\* the body of `for year in range(start_year, end_year + 1)`: the try block
\* and its two handlers
main_year(all_data, year, outcome) ==
  IF outcome.error = "HTTPError"
    THEN [all_data |-> all_data, line |-> Line("Failed to fetch", year, 0),
          pc |-> "loop"]
  ELSE IF outcome.error \in FetchFailures
    THEN [all_data |-> all_data, line |-> Line("Error", year, 0), pc |-> "loop"]
  ELSE LET year_data == scrape_year(year, outcome.doc)
       IN  [all_data |-> all_data \o year_data,
            line |-> Line("records", year, Len(year_data)),
            pc |-> "loop"]

\* `if not all_data` with the test left out: the file is always written
no_data_never(records) == FALSE

\* `if not all_data` / `if not data`
no_data(records) == records = <<>>

(***************************************************************************)
(* Inputs: cell, heading and caption texts, rows, nodes and documents      *)
(***************************************************************************)
\* the longest table given to the row scans
MaxRows == 3

\* the longest document given to the walk
MaxNodes == 3

TxtDistrict4 == <<"D", "i", "s", "t", "r", "i", "c", "t", " ", "4">>

TxtOverview == <<"O", "v", "e", "r", "v", "i", "e", "w">>

TxtSherman == <<"1", "0", "1", " ", "-", " ", "S", "H", "E", "R", "M", "A", "N">>

TxtKelly == <<"1", "0", "5", "u2013", "K", "E", "L", "L", "Y">>

TxtNotes == <<"N", "o", "t", "e", "s">>

TxtOkanogan ==
  <<"2", "0", "4", " ", "-", " ", "O", "K", "A", "N", "O", "G", "A", "N">>

TxtSummary == <<"S", "u", "m", "m", "a", "r", "y">>

TxtMethod == <<"M", "e", "t", "h", "o", "d">>

TxtHuntingMethod ==
  <<"H", "u", "n", "t", "i", "n", "g", " ", "M", "e", "t", "h", "o", "d">>

TxtArchery == <<"A", "r", "c", "h", "e", "r", "y">>

TxtModernFirearms ==
  <<"M", "o", "d", "e", "r", "n", " ", "F", "i", "r", "e", "a", "r", "m", "s">>

TxtModernFirearmsUpper ==
  <<"M", "O", "D", "E", "R", "N", " ", "F", "I", "R", "E", "A", "R", "M", "S">>

TxtTotalsPadded == <<" ", "T", "o", "t", "a", "l", "s", " ">>

TxtMuzzleloader ==
  <<"M", "u", "z", "z", "l", "e", "l", "o", "a", "d", "e", "r">>

\* a 13-cell row: method, harvest (column 3), hunters (column 9) and
\* hunter-days (column 11) given, the other cells fixed
DataRow(method, harvest, hunters, days) ==
  <<method, <<"3">>, <<"7">>, harvest, <<"1">>, <<"2">>, <<"3">>, <<"4">>, <<"0">>,
    hunters, <<"2", "5", "%">>, days, <<"n", "/", "a">>>>

\* a row as the method-level scan sees it
MethodRow(method) == DataRow(method, <<"1", "0">>, <<"4", "0">>, <<"2", "0", "0">>)

\* the rows given to the method-level scan: header rows, method rows, a totals
\* row, a 12-cell row and a 14-cell row; the hunter-days cell tells them apart
MethodRows ==
  {DataRow(TxtMethod, <<"0">>, <<"0">>, <<"1">>),
   DataRow(TxtHuntingMethod, <<"0">>, <<"0">>, <<"2">>),
   DataRow(TxtArchery, <<"1", "0">>, <<"4", "0">>, <<"3">>),
   DataRow(TxtModernFirearms, <<"1", "0">>, <<"4", "0">>, <<"4">>),
   DataRow(TxtModernFirearmsUpper, <<"1", "0">>, <<"4", "0">>, <<"5">>),
   DataRow(TxtTotalsPadded, <<"3", "0">>, <<"n", "/", "a">>, <<"6">>),
   SubSeq(DataRow(TxtArchery, <<"1", "0">>, <<"4", "0">>, <<"7">>), 1, 12),
   DataRow(TxtMuzzleloader, <<"1", "0">>, <<"4", "0">>, <<"8">>) \o <<<<"x">>>>}

\* the sequences over S of length at most n
SeqsUpTo(S, n) == UNION {[1..m -> S] : m \in 0..n}

Node(tag, text, caption, rows) ==
  [tag |-> tag, text |-> text, caption |-> caption, rows |-> rows]

\* the rows of the tables of the walked documents: a header row, one method
\* row and the totals row
SampleRows ==
  <<MethodRow(TxtMethod), MethodRow(TxtArchery), MethodRow(TxtTotalsPadded)>>

\* the nodes of the walked documents: district and other h2 headings, GMU
\* sub-headings at both levels (hyphen and en dash), another h3, a paragraph,
\* and tables without a caption, with a GMU caption and with another caption
WalkNodes ==
  {Node("h2", TxtDistrict4, None, <<>>),
   Node("h2", TxtOverview, None, <<>>),
   Node("h3", TxtSherman, None, <<>>),
   Node("h4", TxtKelly, None, <<>>),
   Node("h3", TxtNotes, None, <<>>),
   Node("p", TxtSherman, None, <<>>),
   Node("table", <<>>, None, SampleRows),
   Node("table", <<>>, TxtOkanogan, SampleRows),
   Node("table", <<>>, TxtSummary, SampleRows)}

TxtTotal == <<"T", "o", "t", "a", "l">>

\* the rows given to the summary scan: a header row, method rows (one with
\* unparseable hunter-days, one with negative hunter-days), totals rows, a
\* row labelled "Total" and a 12-cell row
SummaryRows ==
  {DataRow(TxtMethod, <<"9">>, <<"9">>, <<"9">>),
   DataRow(TxtArchery, <<"1", "0">>, <<"2", "0", "0">>, <<"1", ",", "0", "0", "0">>),
   DataRow(TxtModernFirearms, <<"1", "3">>, <<"4", "0">>, <<"a", "b", "c">>),
   DataRow(TxtMuzzleloader, <<"n", "/", "a">>, <<"2">>, <<"-", "5">>),
   DataRow(TxtTotalsPadded, <<"5", "0">>, <<"9">>, <<"9">>),
   DataRow(TxtTotalsPadded, <<"2", "3">>, <<>>, <<>>),
   DataRow(TxtTotal, <<"0">>, <<"7">>, <<"7">>),
   SubSeq(DataRow(TxtArchery, <<"1">>, <<"1">>, <<"1">>), 1, 12)}

\* the documents a fetch returns in the runs of main: an empty page; a
\* district with a captioned table of data; a GMU heading and a caption-less
\* table holding only a header and a totals row; a captioned table holding
\* only a header row
RunDocs ==
  {<<>>,
   <<Node("h2", TxtDistrict4, None, <<>>),
     Node("table", <<>>, TxtOkanogan, SampleRows)>>,
   <<Node("h3", TxtSherman, None, <<>>),
     Node("table", <<>>, None,
          <<MethodRow(TxtMethod), MethodRow(TxtTotalsPadded)>>)>>,
   <<Node("table", <<>>, TxtOkanogan, <<MethodRow(TxtMethod)>>)>>}

\* the years of the range main is run on
MaxYears == 3

\* `end_year = 2024`
end_year == 2024

\* the year of the page the summary variant fetches: `.../game-harvest/2024/...`
summary_year == 2024

(***************************************************************************)
(* State                                                                   *)
(***************************************************************************)
VARIABLES
  \* parse_gmu_table (method-level): the table's rows, the district argument,
  \* the index of the next row, the list results, the position in the function
  pg_rows, pg_district, pg_k, pg_results, pg_pc,
  \* scrape_year: the find_all result, the position in the function, the index
  \* of the next element, the walk's locals, and the list results
  elements, sy_pc, sy_k, current_district, current_gmu, current_gmu_name,
  district_map, gmu_map, sy_results,
  \* parse_gmu_table (summary): the table's rows, the position in the function,
  \* the index of the next row, the locals, and the dict returned
  sm_rows, sm_pc, sm_k, archery_data, total_harvest, total_hunters,
  total_hunter_days, gmu_data,
  \* main: which program runs, what each year's fetch gives, the position in
  \* main, the loop variable, the lists all_data (method-level) and data
  \* (summary), standard output, and the CSV file
  variant, site, run_pc, year, all_data, data, stdout, output_file

pgVars == <<pg_rows, pg_district, pg_k, pg_results, pg_pc>>

syVars == <<elements, sy_pc, sy_k, current_district, current_gmu,
            current_gmu_name, district_map, gmu_map, sy_results>>

smVars == <<sm_rows, sm_pc, sm_k, archery_data, total_harvest, total_hunters,
            total_hunter_days, gmu_data>>

runVars == <<variant, site, run_pc, year, all_data, data, stdout, output_file>>

vars == <<pgVars, syVars, smVars, runVars>>

\* the first year of the range: `start_year = 2013`
start_year == 2013

PgIdle ==
  /\ pg_rows = <<>> /\ pg_district = None /\ pg_k = 0
  /\ pg_results = <<>> /\ pg_pc = "idle"

SyIdle ==
  /\ elements = <<>> /\ sy_pc = "idle" /\ sy_k = 0
  /\ current_district = None /\ current_gmu = None /\ current_gmu_name = None
  /\ district_map = <<>> /\ gmu_map = <<>> /\ sy_results = <<>>

SmIdle ==
  /\ sm_rows = <<>> /\ sm_pc = "idle" /\ sm_k = 0
  /\ archery_data = NoneDict /\ total_harvest = 0 /\ total_hunters = 0
  /\ total_hunter_days = 0 /\ gmu_data = NoneDict

RunIdle ==
  /\ variant = "idle" /\ site = <<>> /\ run_pc = "idle" /\ year = 0
  /\ all_data = <<>> /\ data = <<>> /\ stdout = <<>> /\ output_file = NoFile

(***************************************************************************)
(* SpecRows: the row scan of the method-level parse_gmu_table, one row a   *)
(* step, on every table of at most MaxRows rows of MethodRows              *)
(***************************************************************************)
PgGmuNumber == <<"1", "0", "1">>

PgGmuName == <<"S", "H", "E", "R", "M", "A", "N">>

InitRows ==
  /\ pg_rows \in SeqsUpTo(MethodRows, MaxRows)
  /\ pg_district \in {None, <<"4">>}
  /\ pg_k = 1
  /\ pg_results = <<>>
  /\ pg_pc = "rows"
  /\ SyIdle /\ SmIdle /\ RunIdle

\* the loop body on row pg_k
PgStep ==
  /\ pg_k' = pg_k + 1
  /\ pg_results' = parse_row(pg_results, pg_rows[pg_k], start_year, pg_district,
                             PgGmuNumber, PgGmuName)
  /\ UNCHANGED <<pg_rows, pg_district, pg_pc, syVars, smVars, runVars>>

\* `if len(cells) < 13: continue`
PgShortRow ==
  /\ pg_pc = "rows" /\ pg_k <= Len(pg_rows)
  /\ RowTooShort(pg_rows[pg_k])
  /\ PgStep

\* `if method.lower() == 'method': continue`
PgHeaderRow ==
  /\ pg_pc = "rows" /\ pg_k <= Len(pg_rows)
  /\ ~RowTooShort(pg_rows[pg_k])
  /\ IsHeaderMethod(CellTexts(pg_rows[pg_k])[1])
  /\ PgStep

\* `if method.lower() == 'totals': continue`
PgTotalsRow ==
  /\ pg_pc = "rows" /\ pg_k <= Len(pg_rows)
  /\ ~RowTooShort(pg_rows[pg_k])
  /\ ~IsHeaderMethod(CellTexts(pg_rows[pg_k])[1])
  /\ IsTotalsMethod(CellTexts(pg_rows[pg_k])[1])
  /\ PgStep

\* `results.append({...})`
PgEmitRow ==
  /\ pg_pc = "rows" /\ pg_k <= Len(pg_rows)
  /\ ~RowTooShort(pg_rows[pg_k])
  /\ ~IsHeaderMethod(CellTexts(pg_rows[pg_k])[1])
  /\ ~IsTotalsMethod(CellTexts(pg_rows[pg_k])[1])
  /\ PgStep

\* `return results`
PgReturn ==
  /\ pg_pc = "rows" /\ pg_k > Len(pg_rows)
  /\ pg_pc' = "done"
  /\ UNCHANGED <<pg_rows, pg_district, pg_k, pg_results, syVars, smVars, runVars>>

NextRows == PgShortRow \/ PgHeaderRow \/ PgTotalsRow \/ PgEmitRow \/ PgReturn

SpecRows == InitRows /\ [][NextRows]_vars

(***************************************************************************)
(* SpecWalk: scrape_year on every document of at most MaxNodes nodes of    *)
(* WalkNodes, one loop iteration a step                                    *)
(***************************************************************************)
Ctx ==
  [current_district |-> current_district, current_gmu |-> current_gmu,
   current_gmu_name |-> current_gmu_name,
   district_map |-> district_map, gmu_map |-> gmu_map]

InitWalk ==
  /\ elements \in {find_all_headings_tables(d) : d \in SeqsUpTo(WalkNodes, MaxNodes)}
  /\ sy_pc = "walk"
  /\ sy_k = 1
  /\ current_district = WalkInit.current_district
  /\ current_gmu = WalkInit.current_gmu
  /\ current_gmu_name = WalkInit.current_gmu_name
  /\ district_map = WalkInit.district_map
  /\ gmu_map = WalkInit.gmu_map
  /\ sy_results = <<>>
  /\ PgIdle /\ SmIdle /\ RunIdle

\* one iteration of the first loop
SyWalkStep ==
  LET c == walk_element(Ctx, sy_k, elements[sy_k])
  IN  /\ current_district' = c.current_district
      /\ current_gmu' = c.current_gmu
      /\ current_gmu_name' = c.current_gmu_name
      /\ district_map' = c.district_map
      /\ gmu_map' = c.gmu_map
      /\ sy_k' = sy_k + 1
      /\ UNCHANGED <<elements, sy_pc, sy_results, pgVars, smVars, runVars>>

\* `if element.name == 'h2'`
SyH2 ==
  /\ sy_pc = "walk" /\ sy_k <= Len(elements)
  /\ elements[sy_k].tag = "h2"
  /\ SyWalkStep

\* `elif element.name in ('h3', 'h4')`
SySubHeading ==
  /\ sy_pc = "walk" /\ sy_k <= Len(elements)
  /\ elements[sy_k].tag \in {"h3", "h4"}
  /\ SyWalkStep

\* `elif element.name == 'table'`
SyTable ==
  /\ sy_pc = "walk" /\ sy_k <= Len(elements)
  /\ elements[sy_k].tag = "table"
  /\ SyWalkStep

\* the first loop ends; `tables = soup.find_all('table')`
SyWalkEnd ==
  /\ sy_pc = "walk" /\ sy_k > Len(elements)
  /\ sy_pc' = "tables"
  /\ sy_k' = 1
  /\ UNCHANGED <<elements, current_district, current_gmu, current_gmu_name,
                 district_map, gmu_map, sy_results, pgVars, smVars, runVars>>

\* the second loop passes over an element find_all('table') does not yield
SyNotATable ==
  /\ sy_pc = "tables" /\ sy_k <= Len(elements)
  /\ elements[sy_k].tag # "table"
  /\ sy_k' = sy_k + 1
  /\ UNCHANGED <<elements, sy_pc, current_district, current_gmu, current_gmu_name,
                 district_map, gmu_map, sy_results, pgVars, smVars, runVars>>

\* `if table_id not in gmu_map: continue`
SySkipTable ==
  /\ sy_pc = "tables" /\ sy_k <= Len(elements)
  /\ elements[sy_k].tag = "table"
  /\ sy_k \notin DOMAIN gmu_map
  /\ sy_k' = sy_k + 1
  /\ UNCHANGED <<elements, sy_pc, current_district, current_gmu, current_gmu_name,
                 district_map, gmu_map, sy_results, pgVars, smVars, runVars>>

\* `rows = parse_gmu_table(...); results.extend(rows)`
SyParseTable ==
  /\ sy_pc = "tables" /\ sy_k <= Len(elements)
  /\ elements[sy_k].tag = "table"
  /\ sy_k \in DOMAIN gmu_map
  /\ sy_results' = sy_results \o table_rows(Ctx, sy_k, elements[sy_k], start_year)
  /\ sy_k' = sy_k + 1
  /\ UNCHANGED <<elements, sy_pc, current_district, current_gmu, current_gmu_name,
                 district_map, gmu_map, pgVars, smVars, runVars>>

\* `return results`
SyReturn ==
  /\ sy_pc = "tables" /\ sy_k > Len(elements)
  /\ sy_pc' = "done"
  /\ UNCHANGED <<elements, sy_k, current_district, current_gmu, current_gmu_name,
                 district_map, gmu_map, sy_results, pgVars, smVars, runVars>>

NextWalk ==
  \/ SyH2 \/ SySubHeading \/ SyTable \/ SyWalkEnd
  \/ SyNotATable \/ SySkipTable \/ SyParseTable \/ SyReturn

SpecWalk == InitWalk /\ [][NextWalk]_vars

(***************************************************************************)
(* SpecSummary: the summary parse_gmu_table, one row a step, on every      *)
(* table of at most MaxRows rows of SummaryRows                            *)
(***************************************************************************)
Acc ==
  [archery_data |-> archery_data, total_harvest |-> total_harvest,
   total_hunters |-> total_hunters, total_hunter_days |-> total_hunter_days]

InitSummary ==
  /\ sm_rows \in SeqsUpTo(SummaryRows, MaxRows)
  /\ sm_pc = "rows"
  /\ sm_k = 1
  /\ archery_data = ScanInit.archery_data
  /\ total_harvest = ScanInit.total_harvest
  /\ total_hunters = ScanInit.total_hunters
  /\ total_hunter_days = ScanInit.total_hunter_days
  /\ gmu_data = NoneDict
  /\ PgIdle /\ SyIdle /\ RunIdle

\* the loop body on row sm_k
SmStep ==
  LET a == scan_row(Acc, sm_rows[sm_k])
  IN  /\ archery_data' = a.archery_data
      /\ total_harvest' = a.total_harvest
      /\ total_hunters' = a.total_hunters
      /\ total_hunter_days' = a.total_hunter_days
      /\ sm_k' = sm_k + 1
      /\ UNCHANGED <<sm_rows, sm_pc, gmu_data, pgVars, syVars, runVars>>

\* the first cell of row sm_k, lower-cased
SmMethod == Lower(CellTexts(sm_rows[sm_k])[1])

\* `if len(cells) < 13: continue`
SmShortRow ==
  /\ sm_pc = "rows" /\ sm_k <= Len(sm_rows)
  /\ RowTooShort(sm_rows[sm_k])
  /\ SmStep

\* `if 'method' in method: continue`
SmHeaderRow ==
  /\ sm_pc = "rows" /\ sm_k <= Len(sm_rows)
  /\ ~RowTooShort(sm_rows[sm_k])
  /\ IsHeaderSummary(SmMethod)
  /\ SmStep

\* `if 'total' in method: total_harvest = parse_int(cell_texts[3])`
SmTotalRow ==
  /\ sm_pc = "rows" /\ sm_k <= Len(sm_rows)
  /\ ~RowTooShort(sm_rows[sm_k])
  /\ ~IsHeaderSummary(SmMethod)
  /\ IsTotalSummary(SmMethod)
  /\ SmStep

\* `else: total_hunters += hunters; total_hunter_days += hunter_days`
SmMethodRow ==
  /\ sm_pc = "rows" /\ sm_k <= Len(sm_rows)
  /\ ~RowTooShort(sm_rows[sm_k])
  /\ ~IsHeaderSummary(SmMethod)
  /\ ~IsTotalSummary(SmMethod)
  /\ SmStep

SmDistrict == <<"4">>

\* "Calculate overall stats" and `return {...}`, or the ZeroDivisionError a
\* division by zero raises
SmReturn ==
  /\ sm_pc = "rows" /\ sm_k > Len(sm_rows)
  /\ IF overall_stats(total_harvest, total_hunters, total_hunter_days).raised
       THEN sm_pc' = "ZeroDivisionError" /\ gmu_data' = gmu_data
       ELSE /\ sm_pc' = "done"
            /\ gmu_data' = SummaryRecord(Acc, SmDistrict, PgGmuNumber, PgGmuName)
  /\ UNCHANGED <<sm_rows, sm_k, archery_data, total_harvest, total_hunters,
                 total_hunter_days, pgVars, syVars, runVars>>

NextSummary == SmShortRow \/ SmHeaderRow \/ SmTotalRow \/ SmMethodRow \/ SmReturn

SpecSummary == InitSummary /\ [][NextSummary]_vars

(***************************************************************************)
(* SpecRun: the two main functions, on every assignment of an outcome (a   *)
(* document of RunDocs or a failure) to the years fetched                  *)
(***************************************************************************)
\* the last year of the loop: end_year, or sooner under the bound MaxYears
LastYear ==
  IF start_year + MaxYears - 1 < end_year THEN start_year + MaxYears - 1
  ELSE end_year

Outcomes == {Fetched(d) : d \in RunDocs} \cup {FetchFailed(e) : e \in FetchFailures}

InitRun ==
  /\ variant \in {"all_years", "summary"}
  /\ site \in IF variant = "all_years" THEN [start_year..LastYear -> Outcomes]
              ELSE [{summary_year} -> Outcomes]
  /\ run_pc = IF variant = "all_years" THEN "loop" ELSE "start"
  /\ year = IF variant = "all_years" THEN start_year ELSE summary_year
  /\ all_data = <<>>
  /\ data = <<>>
  /\ stdout = <<>>
  /\ output_file = NoFile
  /\ PgIdle /\ SyIdle /\ SmIdle

\* one iteration of the loop of main (method-level)
MainYearStep ==
  LET r == main_year(all_data, year, site[year])
  IN  /\ all_data' = r.all_data
      /\ stdout' = Append(stdout, r.line)
      /\ run_pc' = r.pc
      /\ year' = year + 1
      /\ UNCHANGED <<variant, site, data, output_file, pgVars, syVars, smVars>>

\* `year_data = scrape_year(year); all_data.extend(year_data)`
MainYearScraped ==
  /\ variant = "all_years" /\ run_pc = "loop" /\ year <= LastYear
  /\ site[year].error = ""
  /\ MainYearStep

\* `except requests.exceptions.HTTPError as e`
MainYearHTTPError ==
  /\ variant = "all_years" /\ run_pc = "loop" /\ year <= LastYear
  /\ site[year].error = "HTTPError"
  /\ MainYearStep

\* `except Exception as e`
MainYearException ==
  /\ variant = "all_years" /\ run_pc = "loop" /\ year <= LastYear
  /\ site[year].error \notin {"", "HTTPError"}
  /\ MainYearStep

\* `if not all_data: print("No data found."); return`
MainNoData ==
  /\ variant = "all_years" /\ run_pc = "loop" /\ year > LastYear
  /\ no_data(all_data)
  /\ stdout' = Append(stdout, Line("No data found.", 0, 0))
  /\ run_pc' = "done"
  /\ UNCHANGED <<variant, site, year, all_data, data, output_file,
                 pgVars, syVars, smVars>>

\* `write_csv(all_data, output_file); print("Done!")`
MainWrite ==
  /\ variant = "all_years" /\ run_pc = "loop" /\ year > LastYear
  /\ ~no_data(all_data)
  /\ output_file' = write_csv(all_data)
  /\ stdout' = stdout \o <<Line("Wrote", 0, Len(all_data)), Line("Done!", 0, 0)>>
  /\ run_pc' = "done"
  /\ UNCHANGED <<variant, site, year, all_data, data, pgVars, syVars, smVars>>

\* `data = scrape_deer_harvest(url)` of the summary main; an exception of the
\* fetch is not caught and ends the program
SummaryScrape ==
  /\ variant = "summary" /\ run_pc = "start"
  /\ IF site[year].error = ""
       THEN data' = scrape_deer_harvest(site[year].doc) /\ run_pc' = "scraped"
       ELSE data' = data /\ run_pc' = "crashed"
  /\ UNCHANGED <<variant, site, year, all_data, stdout, output_file,
                 pgVars, syVars, smVars>>

\* `if not data: print("No data found. ..."); return`
SummaryNoData ==
  /\ variant = "summary" /\ run_pc = "scraped"
  /\ no_data(data)
  /\ stdout' = Append(stdout, Line("No data found.", 0, 0))
  /\ run_pc' = "done"
  /\ UNCHANGED <<variant, site, year, all_data, data, output_file,
                 pgVars, syVars, smVars>>

\* `write_csv(data, output_file); print("Done!")`
SummaryWrite ==
  /\ variant = "summary" /\ run_pc = "scraped"
  /\ ~no_data(data)
  /\ output_file' = write_csv(data)
  /\ stdout' = stdout \o <<Line("Wrote", 0, Len(data)), Line("Done!", 0, 0)>>
  /\ run_pc' = "done"
  /\ UNCHANGED <<variant, site, year, all_data, data, pgVars, syVars, smVars>>

NextRun ==
  \/ MainYearScraped \/ MainYearHTTPError \/ MainYearException
  \/ MainNoData \/ MainWrite
  \/ SummaryScrape \/ SummaryNoData \/ SummaryWrite

SpecRun == InitRun /\ [][NextRun]_vars

(***************************************************************************)
(* Properties of the walk of scrape_year (SpecWalk)                        *)
(***************************************************************************)
\* the first loop has handled element k
Walked(k) ==
  \/ sy_pc = "walk" /\ k < sy_k
  \/ sy_pc \in {"tables", "done"}

IsTableAt(k) == elements[k].tag = "table"

\* table k carries a caption of the form <3 digits><dash><label>
CaptionMatchesAt(k) ==
  /\ elements[k].caption # None
  /\ GmuMatches(Strip(elements[k].caption))

\* the (id, trimmed name) the caption of table k parses to
CaptionUnitAt(k) ==
  <<GmuGroup1(Strip(elements[k].caption)),
    Strip(GmuGroup2(Strip(elements[k].caption)))>>

IsDistrictHeadingAt(k) ==
  elements[k].tag = "h2" /\ DistrictMatches(Strip(elements[k].text))

IsUnitHeadingAt(k) ==
  elements[k].tag \in {"h3", "h4"} /\ GmuMatches(Strip(elements[k].text))

\* the unit sub-headings in force at element k: after them, no district
\* heading comes before k
UnitHeadingsBefore(k) ==
  {j \in 1..(k - 1) :
     /\ IsUnitHeadingAt(j)
     /\ \A d \in (j + 1)..(k - 1) : ~IsDistrictHeadingAt(d)}

\* a district heading comes before element k with no unit sub-heading between
DistrictClearedAt(k) ==
  \E d \in 1..(k - 1) :
    /\ IsDistrictHeadingAt(d)
    /\ \A j \in (d + 1)..(k - 1) : ~IsUnitHeadingAt(j)

\* C1: every walked table whose caption matches <3 digits><dash><label> is
\* mapped to the caption's parsed (id, trimmed name), whatever heading-derived
\* unit is current.
C1_CaptionWins ==
  \A k \in 1..Len(elements) :
    (Walked(k) /\ IsTableAt(k) /\ CaptionMatchesAt(k))
      => (k \in DOMAIN gmu_map /\ gmu_map[k] = CaptionUnitAt(k))

\* a captioned table has just been walked while a sub-heading had set another
\* current unit
C1_Witness ==
  /\ sy_pc = "walk" /\ sy_k > 1
  /\ IsTableAt(sy_k - 1) /\ CaptionMatchesAt(sy_k - 1)
  /\ current_gmu # None
  /\ current_gmu # CaptionUnitAt(sy_k - 1)[1]
  /\ gmu_map[sy_k - 1] = CaptionUnitAt(sy_k - 1)

\* a caption-less table that a district heading precedes with no unit
\* sub-heading between
ClearedTableAt(k) ==
  IsTableAt(k) /\ elements[k].caption = None /\ DistrictClearedAt(k)

C2_NoMapping ==
  \A k \in 1..Len(elements) :
    (Walked(k) /\ ClearedTableAt(k)) => k \notin DOMAIN gmu_map

C2_NoRecords ==
  (sy_pc = "tables" /\ sy_k <= Len(elements) /\ ClearedTableAt(sy_k))
    => sy_results' = sy_results

\* C2: a caption-less table met after a 'District <n>' heading and before the
\* next unit sub-heading gets no unit mapping, and the pass over it in the
\* second loop adds no record, whichever sub-headings came before the district
\* heading.
C2_DistrictClearsUnit == []C2_NoMapping /\ [][C2_NoRecords]_vars

\* the run is over a document in which a unit sub-heading, then a district
\* heading, then a caption-less table occur, and the table got no mapping
C2_Witness ==
  /\ sy_pc = "done"
  /\ \E k \in 1..Len(elements) :
       /\ ClearedTableAt(k)
       /\ \E j \in 1..(k - 1) : IsUnitHeadingAt(j)
       /\ k \notin DOMAIN gmu_map

\* C3 (as claimed): every walked table with no matching caption that is met
\* while a heading-derived unit is current is mapped to that heading's
\* (unit_id, unit_name).
C3_HeadingFallback ==
  \A k \in 1..Len(elements) :
    (Walked(k) /\ IsTableAt(k) /\ ~CaptionMatchesAt(k) /\ UnitHeadingsBefore(k) # {})
      => LET S == UnitHeadingsBefore(k)
             j == CHOOSE m \in S : \A n \in S : n <= m
             text == Strip(elements[j].text)
         IN  /\ k \in DOMAIN gmu_map
             /\ gmu_map[k] = <<GmuGroup1(text), Strip(GmuGroup2(text))>>

(***************************************************************************)
(* Properties of the method-level row scan (SpecRows)                      *)
(***************************************************************************)
\* the rows the scan has passed
PgScanned == SubSeq(pg_rows, 1, pg_k - 1)

\* the first cell of a row, trimmed
FirstCell(row) == Strip(row[1])

\* a row with at least 13 cells whose first cell is neither 'method' nor
\* 'totals' (lower-cased, trimmed)
IsMethodLevelDataRow(row) ==
  /\ Len(row) >= 13
  /\ Lower(FirstCell(row)) # LitMethod
  /\ Lower(FirstCell(row)) # LitTotals

PgDataRows == SelectSeq(PgScanned, IsMethodLevelDataRow)

\* C4: the records emitted are, in row order, one for each scanned row with at
\* least 13 cells whose first cell is neither the header ('method') nor the
\* totals row ('totals'), and nothing else: no record for a shorter row or for
\* the totals row.
C4_OneRecordPerDataRow ==
  pg_pc \in {"rows", "done"} =>
    /\ Len(pg_results) = Len(PgDataRows)
    /\ \A i \in 1..Len(pg_results) :
         /\ pg_results[i].hunter_days = Strip(PgDataRows[i][12])
         /\ pg_results[i].total_harvest = Strip(PgDataRows[i][4])

\* a table with a 12-cell row whose first cell is a method name, a totals row
\* and a data row has been scanned, and exactly one record came out
C4_Witness ==
  /\ pg_pc = "done"
  /\ Len(pg_results) = 1
  /\ \E i \in 1..Len(pg_rows) :
       Len(pg_rows[i]) = 12 /\ FirstCell(pg_rows[i]) = TxtArchery
  /\ \E i \in 1..Len(pg_rows) :
       Len(pg_rows[i]) >= 13 /\ Lower(FirstCell(pg_rows[i])) = LitTotals

\* C5 (as claimed): only the exact text "Modern Firearms" is rewritten to
\* "Modern Firearm"; every other label, other case variants included, is
\* emitted unchanged.
C5_ExactCaseOnly ==
  \A i \in 1..Len(pg_results) :
    i <= Len(PgDataRows) =>
      pg_results[i].method =
        IF FirstCell(PgDataRows[i]) = TxtModernFirearms THEN LitModernFirearm
        ELSE FirstCell(PgDataRows[i])

\* C5 (amended): a label whose lower-cased text is "modern firearms" (any case
\* variant) is emitted as "Modern Firearm"; every other label is emitted
\* unchanged.
C5_AnyCaseRewritten ==
  \A i \in 1..Len(pg_results) :
    i <= Len(PgDataRows) =>
      pg_results[i].method =
        IF Lower(FirstCell(PgDataRows[i])) = LitModernFirearmsLower
          THEN LitModernFirearm
        ELSE FirstCell(PgDataRows[i])

\* a row labelled "MODERN FIREARMS" has been emitted as "Modern Firearm", and a
\* row with another label unchanged
C5_Witness ==
  /\ \E i \in 1..Len(pg_results) :
       /\ i <= Len(PgDataRows)
       /\ FirstCell(PgDataRows[i]) = TxtModernFirearmsUpper
       /\ pg_results[i].method = LitModernFirearm
  /\ \E i \in 1..Len(pg_results) : pg_results[i].method = TxtArchery

\* C9 (as claimed, method-level mode): a row of at least 13 cells whose first
\* cell, lower-cased and trimmed, contains "method" gives no record.
C9_HeaderRowsDiscarded ==
  \A i \in 1..Len(pg_results) :
    ~Contains(Lower(pg_results[i].method), LitMethod)

(***************************************************************************)
(* Properties of the summary row scan (SpecSummary)                        *)
(***************************************************************************)
\* the rows the scan has passed
SmScanned == SubSeq(sm_rows, 1, sm_k - 1)

\* the integers nearest to a / b (a >= 0, b > 0): two of them on a tie
Nearest(a, b) ==
  {r \in {a \div b, (a \div b) + 1} :
     2 * (IF r * b >= a THEN r * b - a ELSE a - r * b) <= b}

Txt25Percent == <<"2", "5", "%">>

Txt20 == <<"2", "0">>

\* C6: the scan never divides by zero; after it, if total_harvest > 0 and
\* total_hunters > 0 the success rate is total_harvest / total_hunters * 100
\* rounded to an integer, followed by '%', and the days per kill is
\* total_hunter_days / total_harvest rounded to an integer (for a negative
\* sum of hunter-days, the text int() reads as that integer); 50, 200, 1000
\* give "25%" and "20"; if total_harvest = 0 or total_hunters = 0 both are "".
C6_OverallStats ==
  /\ sm_pc # "ZeroDivisionError"
  /\ sm_pc = "done" =>
       LET rate == gmu_data.overall_success_rate
           dpk == gmu_data.overall_hunter_days_per_kill
       IN  /\ (total_harvest > 0 /\ total_hunters > 0) =>
                /\ \E r \in Nearest(100 * total_harvest, total_hunters) :
                     rate = NatToStr(r) \o <<"%">>
                /\ total_hunter_days >= 0 =>
                     \E q \in Nearest(total_hunter_days, total_harvest) :
                       dpk = NatToStr(q)
                /\ total_hunter_days < 0 =>
                     /\ IntParses(dpk)
                     /\ 0 - IntValue(dpk) \in
                          Nearest(0 - total_hunter_days, total_harvest)
           /\ (total_harvest = 0 \/ total_hunters = 0) =>
                rate = <<>> /\ dpk = <<>>
           /\ (total_harvest = 50 /\ total_hunters = 200
                 /\ total_hunter_days = 1000) =>
                rate = Txt25Percent /\ dpk = Txt20

\* the scan of a table summing to 50, 200 and 1000 has given "25%" and "20"
C6_Witness ==
  /\ sm_pc = "done"
  /\ total_harvest = 50 /\ total_hunters = 200 /\ total_hunter_days = 1000
  /\ gmu_data.overall_success_rate = Txt25Percent
  /\ gmu_data.overall_hunter_days_per_kill = Txt20

\* the sum of parse_int of cell c over the rows
RECURSIVE SumCell(_, _)
SumCell(rows, c) ==
  IF rows = <<>> THEN 0 ELSE parse_int(Head(rows)[c]) + SumCell(Tail(rows), c)

\* column 3 of the last of the rows, 0 when there is none
LastHarvest(rows) ==
  IF rows = <<>> THEN 0 ELSE parse_int(rows[Len(rows)][4])

IsSummaryNonHeader(row) ==
  Len(row) >= 13 /\ ~Contains(Lower(FirstCell(row)), LitMethod)

\* the aggregate row of the claim: the first cell equals "totals"
IsTotalsRowByEquality(row) ==
  IsSummaryNonHeader(row) /\ Lower(FirstCell(row)) = LitTotals

IsOtherRowByEquality(row) ==
  IsSummaryNonHeader(row) /\ Lower(FirstCell(row)) # LitTotals

\* the aggregate row of the code: the first cell contains "total"
IsTotalRowByContainment(row) ==
  IsSummaryNonHeader(row) /\ Contains(Lower(FirstCell(row)), LitTotal)

IsOtherRowByContainment(row) ==
  IsSummaryNonHeader(row) /\ ~Contains(Lower(FirstCell(row)), LitTotal)

\* C10 (as claimed): only a row whose first cell equals "totals" is the
\* aggregate row (its column 3 sets total_harvest); every other non-header row
\* of at least 13 cells adds its columns 9 and 11 to the totals.
C10_TotalsByEquality ==
  sm_pc \in {"rows", "done"} =>
    /\ total_harvest = LastHarvest(SelectSeq(SmScanned, IsTotalsRowByEquality))
    /\ total_hunters = SumCell(SelectSeq(SmScanned, IsOtherRowByEquality), 10)
    /\ total_hunter_days = SumCell(SelectSeq(SmScanned, IsOtherRowByEquality), 12)

\* C10 (amended): a non-header row of at least 13 cells whose first cell,
\* lower-cased, contains "total" is an aggregate row: its column 3 sets
\* total_harvest and it adds nothing to the totals; every other non-header row
\* of at least 13 cells adds its columns 9 and 11, parsed with unparseable
\* values as zero, so total_hunters is exactly the sum over those rows.
C10_TotalsByContainment ==
  sm_pc \in {"rows", "done"} =>
    /\ total_harvest = LastHarvest(SelectSeq(SmScanned, IsTotalRowByContainment))
    /\ total_hunters = SumCell(SelectSeq(SmScanned, IsOtherRowByContainment), 10)
    /\ total_hunter_days =
         SumCell(SelectSeq(SmScanned, IsOtherRowByContainment), 12)

\* a table with a row labelled "Total", a method row with an unparseable cell
\* and a totals row has been scanned
C10_Witness ==
  /\ sm_pc = "done"
  /\ \E i \in 1..Len(sm_rows) :
       Len(sm_rows[i]) >= 13 /\ FirstCell(sm_rows[i]) = TxtTotal
  /\ \E i \in 1..Len(sm_rows) :
       Len(sm_rows[i]) >= 13 /\ FirstCell(sm_rows[i]) = TxtModernFirearms
  /\ total_hunters = 40 /\ total_hunter_days = 0

(***************************************************************************)
(* Properties of the runs of main (SpecRun)                                *)
(***************************************************************************)
\* C7_Step: an iteration of the year loop on a year whose fetch fails leaves
\* all_data as it was; on any other year it appends that year's records; either
\* way the loop goes on to the next year, and it is left only past the last.
C7_Step ==
  (variant = "all_years" /\ run_pc = "loop") =>
    /\ year <= LastYear =>
         /\ run_pc' = "loop"
         /\ year' = year + 1
         /\ Len(stdout') = Len(stdout) + 1
         /\ stdout'[Len(stdout')].year = year
         /\ IF site[year].error # ""
              THEN all_data' = all_data
              ELSE /\ Len(all_data') = Len(all_data) + stdout'[Len(stdout')].n
                   /\ SubSeq(all_data', 1, Len(all_data)) = all_data
                   /\ \A i \in (Len(all_data) + 1)..Len(all_data') :
                        all_data'[i].year = year
    /\ run_pc' # "loop" => year > LastYear

\* C7: in the multi-year run a failure while fetching a year leaves the
\* records of the earlier years unchanged, adds none for that year and does not
\* stop the loop: every later year is still attempted, and all_data only grows
\* by appending a scraped year's records.
C7_FailedYearSkipped == [][C7_Step]_vars

\* a run is over in which a year that gave records is followed by a failed
\* year and then by another year that gave records, and all were written
C7_Witness ==
  /\ variant = "all_years" /\ run_pc = "done"
  /\ \E i, j, k \in 1..Len(stdout) :
       /\ i < j /\ j < k
       /\ stdout[i].msg = "records" /\ stdout[i].n > 0
       /\ stdout[j].msg \in {"Failed to fetch", "Error"}
       /\ stdout[k].msg = "records" /\ stdout[k].n > 0
       /\ output_file = write_csv(all_data)
       /\ Len(all_data) = stdout[i].n + stdout[k].n

\* the tables of a year's page the method-level walk resolves to a unit
ResolvedAllYears(y) ==
  IF site[y].error # "" THEN 0
  ELSE LET elems == find_all_headings_tables(site[y].doc)
       IN  Cardinality(DOMAIN walk_from(WalkInit, elems, 1).gmu_map)

\* the sum of ResolvedAllYears over the years from y to the last
RECURSIVE ResolvedFromYear(_)
ResolvedFromYear(y) ==
  IF y > LastYear THEN 0 ELSE ResolvedAllYears(y) + ResolvedFromYear(y + 1)

\* the tables of the page the summary walk resolves to a unit
ResolvedSummary(y) ==
  IF site[y].error # "" THEN 0
  ELSE LET elems == find_all_h2_tables(site[y].doc)
       IN  Cardinality({k \in 1..Len(elems) :
                          elems[k].tag = "table" /\ caption_resolves(elems[k])})

\* the unit-resolved tables the walker yielded over the whole run
ResolvedTables ==
  IF variant = "all_years" THEN ResolvedFromYear(start_year)
  ELSE ResolvedSummary(summary_year)

NoDataReported == \E i \in 1..Len(stdout) : stdout[i].msg = "No data found."

CountReported(n) ==
  \E i \in 1..Len(stdout) : stdout[i].msg = "Wrote" /\ stdout[i].n = n

\* the records of the run
RunRecords == IF variant = "all_years" THEN all_data ELSE data

\* C8 (as claimed): at the end of a run "no data found" is reported and no
\* file is written if and only if the walker yielded no unit-resolved table;
\* with at least one the file is written and the record count reported.
C8_NoDataIffNoTables ==
  run_pc = "done" =>
    /\ (NoDataReported /\ ~output_file.exists) <=> (ResolvedTables = 0)
    /\ ResolvedTables > 0 =>
         output_file.exists /\ CountReported(Len(RunRecords))

\* C8 (amended): at the end of a run "no data found" is reported and no file
\* is written if and only if the run gave no record; otherwise the file is
\* written with the records and their count reported.  No unit-resolved table
\* means no record; in summary mode the converse holds too, in method-level
\* mode a resolved table may give no record.
C8_NoDataIffNoRecords ==
  run_pc = "done" =>
    /\ (NoDataReported /\ ~output_file.exists) <=> (RunRecords = <<>>)
    /\ RunRecords # <<>> =>
         /\ ~NoDataReported
         /\ output_file = write_csv(RunRecords)
         /\ CountReported(Len(RunRecords))
    /\ ResolvedTables = 0 => RunRecords = <<>>
    /\ variant = "summary" => (RunRecords = <<>> <=> ResolvedTables = 0)

\* a method-level run is over in which the walker resolved a table, no record
\* came of it, and "no data found" was reported
C8_Witness ==
  /\ run_pc = "done" /\ variant = "all_years"
  /\ ResolvedTables > 0
  /\ NoDataReported /\ ~output_file.exists

=============================================================================
